---- MODULE Spec2Model ----
(***************************************************************************)
(* A model of the PredicateRelatedField evaluation handler and of the PEX  *)
(* facade (src/lib/evaluation/predicateRelatedFieldEvaluationHandler.ts).  *)
(*                                                                         *)
(* JavaScript strings that the code takes apart (indexOf, substring,       *)
(* parseInt, concatenation) are sequences of one-character strings.        *)
(* JavaScript objects that the code copies or assigns to live in `heap`,   *)
(* a sequence of objects addressed by their position (0 is undefined), so  *)
(* that a copy and an alias are different things.                          *)
(***************************************************************************)
EXTENDS Integers, Sequences, FiniteSets, TLC

VARIABLES
  pd,         \* the presentation definition handed to handle: its input_descriptors
  results,    \* the result log (HandlerCheckResult[])
  heap,       \* the payload objects the log entries refer to
  pc,         \* where handle is: "descriptors", "fields", "results", "done"
  di,         \* handle's i: the input descriptor index
  fi,         \* examinePredicateRelatedField's i: the field index
  rj,         \* examinePredicateRelatedField's j: the result index
  appended,   \* history: for each entry pushed, the entry and field it came from
  pex,        \* a PEX instance: its _evaluationClientWrapper and the wrappers made so far
  ncalls,     \* the number of calls made on the PEX instance
  last,       \* history: the last call of a synchronous PEX method and what it did
  vpf,        \* the call of verifiablePresentationFrom in progress: its position and locals
  cp,         \* a call of the static constructPresentation: its input and what it left
  lim         \* a run of the evaluation client with the LimitDisclosure handler

hvars == <<pd, results, heap, pc, di, fi, rj, appended>>
pvars == <<pex, ncalls, last, vpf>>
vars == <<hvars, pvars, cp, lim>>

(***************************************************************************)
(* Bounds of the model.                                                    *)
(***************************************************************************)
MaxFields == 2
MaxLog == 2
MaxCalls == 2
MaxBase == 2

DescriptorCounts == {1, 2}
CredentialIdxs == {0, 1}

(***************************************************************************)
(* JavaScript string operations, on sequences of characters.               *)
(***************************************************************************)
NaN == -1

Digits == <<"0", "1", "2", "3", "4", "5", "6", "7", "8", "9">>

IsDigit(c) == \E d \in 1..10 : Digits[d] = c

DigitValue(c) == (CHOOSE d \in 1..10 : Digits[d] = c) - 1

RECURSIVE ToStr(_)
ToStr(n) == IF n < 10 THEN <<Digits[n + 1]>>
            ELSE ToStr(n \div 10) \o <<Digits[(n % 10) + 1]>>

Clamp(k, n) == IF k < 0 THEN 0 ELSE IF k > n THEN n ELSE k

\* String.prototype.substring(a, b): both ends clamped, swapped when a > b.
Substring(s, a, b) ==
  LET ca == Clamp(a, Len(s))
      cb == Clamp(b, Len(s))
      lo == IF ca <= cb THEN ca ELSE cb
      hi == IF ca <= cb THEN cb ELSE ca
  IN  SubSeq(s, lo + 1, hi)

SubstringFrom(s, a) == Substring(s, a, Len(s))

\* String.prototype.indexOf(t): the first 0-based position of t in s, or -1.
IndexOf(s, t) ==
  LET hits == {k \in 0..(Len(s) - Len(t)) : SubSeq(s, k + 1, k + Len(t)) = t}
  IN  IF hits = {} THEN -1 ELSE CHOOSE k \in hits : \A m \in hits : k <= m

\* parseInt on an unsigned decimal prefix; NaN when the string starts with no digit.
RECURSIVE ParseDigits(_, _)
ParseDigits(s, acc) ==
  IF s = <<>> \/ ~IsDigit(Head(s)) THEN acc
  ELSE ParseDigits(Tail(s), acc * 10 + DigitValue(Head(s)))

ParseInt(s) == IF s = <<>> \/ ~IsDigit(Head(s)) THEN NaN ELSE ParseDigits(s, 0)

(***************************************************************************)
(* The handler's helpers.                                                  *)
(***************************************************************************)
getName == "PredicateRelatedField"

StatusInfo == "info"
StatusError == "error"

OptionalityRequired == "required"
OptionalityPreferred == "preferred"

inputDescriptorText ==
  <<"$", ".", "i", "n", "p", "u", "t", "_", "d", "e", "s", "c", "r", "i", "p", "t", "o", "r", "s", "[">>

\* `$.input_descriptors[${input_descriptor_idx}]`
InputDescriptorPath(idx) == inputDescriptorText \o ToStr(idx) \o <<"]">>

retrieveResultInputDescriptorIdx(input_descriptor_path) ==
  LET startIdx     == IndexOf(input_descriptor_path, inputDescriptorText)
      startWithIdx == SubstringFrom(input_descriptor_path, startIdx + Len(inputDescriptorText))
      endIdx       == IndexOf(startWithIdx, <<"]">>)
      idx          == Substring(startWithIdx, 0, endIdx)
  IN  ParseInt(idx)

\* A path component is a property name or an array index; `+ '.'` prints either.
Name(s) == [kind |-> "name", name |-> s]
Index(n) == [kind |-> "index", index |-> n]

ComponentText(c) == IF c.kind = "index" THEN ToStr(c.index) ELSE c.name

RECURSIVE JoinWithDots(_)
JoinWithDots(path) ==
  IF path = <<>> THEN <<>>
  ELSE ComponentText(Head(path)) \o <<".">> \o JoinWithDots(Tail(path))

concatenatePath(path) ==
  LET completePath == JoinWithDots(path)
  IN  Substring(completePath, 0, Len(completePath) - 1)

\* Array.prototype.includes
Includes(arr, x) == \E k \in 1..Len(arr) : arr[k] = x

(***************************************************************************)
(* Objects.  A payload object may carry `result` (a reference), `path`     *)
(* (an array of components) and `value`; a property an object lacks is     *)
(* undefined (result 0, hasPath FALSE, value Undefined).                   *)
(***************************************************************************)
Undefined == "undefined"
BoolTrue == "true"

Obj(result, hasPath, path, value) ==
  [result |-> result, hasPath |-> hasPath, path |-> path, value |-> value]

HandlerCheckResult(idp, vcp, evaluator, status, message, payload) ==
  [input_descriptor_path |-> idp, verifiable_credential_path |-> vcp,
   evaluator |-> evaluator, status |-> status, message |-> message, payload |-> payload]

\* { ...o }: a new object with o's own properties (a shallow copy).
AliasCopy(h, ref) == [heap |-> h, ref |-> ref]
SpreadCopy(h, ref) == [heap |-> Append(h, h[ref]), ref |-> Len(h) + 1]

\* evaluationResult.value = true
KeepValue(h, ref) == h
SetValueTrue(h, ref) == [h EXCEPT ![ref].value = BoolTrue]

\* results.push(e)
Unshift(res, e) == <<e>> \o res
Push(res, e) == Append(res, e)

\* constraints.fields[fieldIdx].predicate === Optionality.Required
NeverRequired(field) == FALSE
IsRequired(field) == field.predicate = OptionalityRequired

PredicateMessage == "Input candidate valid for presentation submission"

\* The condition of lines 41-49 under which result resultIdx is converted for the field.
ConvertsWithoutPredicate(res, hp, resultIdx, input_descriptor_idx, constraints, fieldIdx) ==
  LET e     == res[resultIdx + 1]
      field == constraints.fields[fieldIdx + 1]
  IN  /\ e.payload # 0
      /\ hp[e.payload].result # 0
      /\ hp[hp[e.payload].result].hasPath
      /\ e.evaluator = "FilterEvaluation"
      /\ input_descriptor_idx = retrieveResultInputDescriptorIdx(e.input_descriptor_path)
      /\ Includes(field.path, concatenatePath(hp[hp[e.payload].result].path))
Converts(res, hp, resultIdx, input_descriptor_idx, constraints, fieldIdx) ==
  LET e     == res[resultIdx + 1]
      field == constraints.fields[fieldIdx + 1]
  IN  /\ e.payload # 0
      /\ hp[e.payload].result # 0
      /\ hp[hp[e.payload].result].hasPath
      /\ e.evaluator = "FilterEvaluation"
      /\ input_descriptor_idx = retrieveResultInputDescriptorIdx(e.input_descriptor_path)
      /\ field.predicate # Undefined
      /\ Includes(field.path, concatenatePath(hp[hp[e.payload].result].path))

\* examinePredicateForFilterEvaluationResult: the log and the heap after the call.
examinePredicateForFilterEvaluationResult(res, hp, resultIdx, input_descriptor_idx, constraints, fieldIdx) ==
  IF Converts(res, hp, resultIdx, input_descriptor_idx, constraints, fieldIdx)
  THEN LET e                == res[resultIdx + 1]
           evaluationResult == SpreadCopy(hp, hp[e.payload].result)
           entry == HandlerCheckResult(InputDescriptorPath(input_descriptor_idx),
                                       e.verifiable_credential_path, getName, StatusInfo,
                                       PredicateMessage, evaluationResult.ref)
       IN  IF IsRequired(constraints.fields[fieldIdx + 1])
           THEN [results |-> Push(res, entry), heap |-> evaluationResult.heap]
           ELSE [results |-> Push(res, entry),
                 heap |-> SetValueTrue(evaluationResult.heap, evaluationResult.ref)]
  ELSE [results |-> res, heap |-> hp]

(***************************************************************************)
(* The inputs of handle: definitions and logs.                             *)
(***************************************************************************)
PathA == <<Name(<<"$">>), Name(<<"a">>)>>
PathB0 == <<Name(<<"$">>), Name(<<"b">>), Index(0)>>

JsonPathA == <<"$", ".", "a">>
JsonPathB0 == <<"$", ".", "b", "[", "0", "]">>

Field(path, predicate) == [path |-> path, predicate |-> predicate]

FieldChoices ==
  { Field(<<JsonPathA>>, Undefined),
    Field(<<JsonPathA>>, OptionalityRequired),
    Field(<<JsonPathB0, JsonPathA>>, OptionalityPreferred) }

\* An input descriptor: constraints present or not, constraints.fields present or not.
InputDescriptor(hasConstraints, hasFields, fields) ==
  [hasConstraints |-> hasConstraints, hasFields |-> hasFields, fields |-> fields]

FieldLists == UNION {[1..n -> FieldChoices] : n \in 0..MaxFields}

DescriptorChoices ==
  {InputDescriptor(FALSE, FALSE, <<>>), InputDescriptor(TRUE, FALSE, <<>>)}
    \cup {InputDescriptor(TRUE, TRUE, fs) : fs \in FieldLists}

RECURSIVE FieldCount(_)
FieldCount(ds) == IF ds = <<>> THEN 0 ELSE Len(Head(ds).fields) + FieldCount(Tail(ds))

Definitions ==
  {ds \in UNION {[1..n -> DescriptorChoices] : n \in DescriptorCounts} :
     FieldCount(ds) <= MaxFields}

\* What an earlier handler logged for one (descriptor, credential) pair.
Shape(evaluator, status, hasPath, path, value) ==
  [evaluator |-> evaluator, status |-> status, hasPath |-> hasPath, path |-> path, value |-> value]

\* A filter result for the path $.a that the filter accepted.
MatchedShape == Shape("FilterEvaluation", StatusInfo, TRUE, PathA, "25")

\* A value the filter rejected, a filter result without a path, one whose path has
\* an array index, and another handler's entry.
OtherShapes ==
  { Shape("FilterEvaluation", StatusError, TRUE, PathA, "17"),
    Shape("FilterEvaluation", StatusError, FALSE, <<>>, Undefined),
    Shape("FilterEvaluation", StatusInfo, TRUE, PathB0, "x"),
    Shape("UriEvaluation", StatusInfo, TRUE, PathA, "25") }

VerifiableCredentialPath(j) == "$.verifiableCredential[" \o Digits[j + 1] \o "]"

LogEntries(n) ==
  [d : 0..(n - 1), c : CredentialIdxs, shape : {MatchedShape}]
    \cup [d : {0}, c : {0}, shape : OtherShapes]

\* Logs are in (descriptor, credential) order, as the earlier handlers leave them.
InOrder(ts) ==
  \A k \in 1..(Len(ts) - 1) :
    \/ ts[k].d < ts[k + 1].d
    \/ ts[k].d = ts[k + 1].d /\ ts[k].c <= ts[k + 1].c

Logs(n) == {ts \in UNION {[1..m -> LogEntries(n)] : m \in 0..MaxLog} : InOrder(ts)}

\* Entry k of the log has payload object 2k-1, whose result is object 2k.
LogResults(ts) ==
  [k \in 1..Len(ts) |->
     HandlerCheckResult(InputDescriptorPath(ts[k].d), VerifiableCredentialPath(ts[k].c),
                        ts[k].shape.evaluator, ts[k].shape.status, "logged", 2 * k - 1)]

LogHeap(ts) ==
  [m \in 1..(2 * Len(ts)) |->
     IF m % 2 = 1 THEN Obj(m + 1, FALSE, <<>>, Undefined)
     ELSE LET s == ts[m \div 2].shape IN Obj(0, s.hasPath, s.path, s.value)]

(***************************************************************************)
(* handle, one loop step at a time.                                        *)
(***************************************************************************)
\* The parts of the state a specification does not use stay as they are here.
NoPex == pex = <<>> /\ ncalls = 0 /\ last = <<>> /\ vpf = <<>>
NoConstruct == cp = <<>>
NoLimitDisclosure == lim = <<>>
NoHandle ==
  /\ pd = <<>> /\ results = <<>> /\ heap = <<>> /\ pc = "idle"
  /\ di = 0 /\ fi = 0 /\ rj = 0 /\ appended = <<>>

Init ==
  /\ NoPex
  /\ NoConstruct
  /\ NoLimitDisclosure
  /\ pd \in Definitions
  /\ \E ts \in Logs(Len(pd)) : results = LogResults(ts) /\ heap = LogHeap(ts)
  /\ pc = "descriptors"
  /\ di = 0
  /\ fi = 0
  /\ rj = 0
  /\ appended = <<>>

\* handle, lines 14-18: the loop over the input descriptors.
HandleLoop ==
  /\ pc = "descriptors"
  /\ IF di < Len(pd)
     THEN IF pd[di + 1].hasConstraints /\ pd[di + 1].hasFields
          THEN pc' = "fields" /\ fi' = 0 /\ di' = di
          ELSE pc' = pc /\ di' = di + 1 /\ fi' = fi
     ELSE pc' = "done" /\ di' = di /\ fi' = fi
  /\ UNCHANGED <<pd, results, heap, rj, appended, pvars, cp, lim>>

\* examinePredicateRelatedField, line 26: the loop over the fields.
FieldLoop ==
  /\ pc = "fields"
  /\ IF fi < Len(pd[di + 1].fields)
     THEN pc' = "results" /\ rj' = 0 /\ di' = di
     ELSE pc' = "descriptors" /\ di' = di + 1 /\ rj' = rj
  /\ UNCHANGED <<pd, results, heap, fi, appended, pvars, cp, lim>>

\* examinePredicateRelatedField, lines 27-29: the loop over the log, its length
\* read again at every step.
ResultLoop ==
  /\ pc = "results"
  /\ IF rj < Len(results)
     THEN LET after == examinePredicateForFilterEvaluationResult(results, heap, rj, di, pd[di + 1], fi)
          IN  /\ results' = after.results
              /\ heap' = after.heap
              /\ appended' =
                   IF Len(after.results) > Len(results)
                   THEN Append(appended,
                          [src |-> rj, field |-> fi, descriptor |-> di,
                           value |-> heap[heap[results[rj + 1].payload].result].value])
                   ELSE appended
              /\ rj' = rj + 1
              /\ pc' = pc /\ fi' = fi
     ELSE /\ pc' = "fields" /\ fi' = fi + 1
          /\ UNCHANGED <<results, heap, appended, rj>>
  /\ UNCHANGED <<pd, di, pvars, cp, lim>>

Next == HandleLoop \/ FieldLoop \/ ResultLoop

Spec == Init /\ [][Next]_vars

(***************************************************************************)
(* Properties of handle.                                                   *)
(***************************************************************************)
\* The log as it was before handle pushed anything has this length.
InitialLength == Len(results) - Len(appended)

\* The k-th entry handle pushed, the entry it was made from, and the field.
PushedEntry(k) == results[InitialLength + k]
SourceEntry(k) == results[appended[k].src + 1]
SourceField(k) == pd[appended[k].descriptor + 1].fields[appended[k].field + 1]

CredentialIdx(e) ==
  CHOOSE j \in CredentialIdxs : VerifiableCredentialPath(j) = e.verifiable_credential_path

\* C1: every entry pushed for a field whose predicate is 'preferred' has the
\* Boolean true as its payload value, and the value the filter extracted is in no
\* property of that entry or of its payload.
C1_PreferredPayloadIsTrue ==
  \A k \in 1..Len(appended) :
    SourceField(k).predicate = OptionalityPreferred =>
      LET e == PushedEntry(k)
          o == heap[e.payload]
      IN  /\ e.evaluator = getName
          /\ o.value = BoolTrue
          /\ o.result = 0
          /\ appended[k].value \notin
               {o.value, e.evaluator, e.status, e.message, e.verifiable_credential_path}

C1_Witness ==
  /\ pc = "done"
  /\ \E k \in 1..Len(appended) :
       /\ SourceField(k).predicate = OptionalityPreferred
       /\ appended[k].value = "25"
       /\ heap[PushedEntry(k).payload].value = BoolTrue

EntryView(res, hp, k) ==
  [entry   |-> res[k],
   payload |-> IF res[k].payload = 0 THEN <<>> ELSE <<hp[res[k].payload]>>,
   result  |-> IF res[k].payload = 0 \/ hp[res[k].payload].result = 0 THEN <<>>
               ELSE <<hp[hp[res[k].payload].result]>>]

\* C3: handle only appends: every step leaves each entry of the log at its index
\* with the same fields, payload and payload.result, and removes none.
C3_AppendOnly ==
  [][/\ Len(results') >= Len(results)
     /\ \A k \in 1..Len(results) :
          EntryView(results', heap', k) = EntryView(results, heap, k)]_vars

C3_Witness ==
  /\ pc = "done"
  /\ \E k \in 1..Len(appended) :
       /\ SourceField(k).predicate = OptionalityPreferred
       /\ heap[PushedEntry(k).payload].value = BoolTrue
       /\ heap[heap[SourceEntry(k).payload].result].value = "25"
       /\ appended[k].src + 1 <= InitialLength

\* C10 as claimed: of two pushed entries the earlier has the smaller descriptor
\* index, or the same descriptor index and a credential index not greater.
C10_DescriptorCredentialOrder ==
  \A k, l \in 1..Len(appended) :
    k < l =>
      LET dk == retrieveResultInputDescriptorIdx(PushedEntry(k).input_descriptor_path)
          dl == retrieveResultInputDescriptorIdx(PushedEntry(l).input_descriptor_path)
      IN  \/ dk < dl
          \/ dk = dl /\ CredentialIdx(PushedEntry(k)) <= CredentialIdx(PushedEntry(l))

\* C10 as amended: the pushed entries are in (descriptor index, field index,
\* position of the source entry) order; credential order holds among the entries
\* pushed for one field of one descriptor.
C10_DescriptorFieldSourceOrder ==
  \A k, l \in 1..Len(appended) :
    k < l =>
      LET dk == retrieveResultInputDescriptorIdx(PushedEntry(k).input_descriptor_path)
          dl == retrieveResultInputDescriptorIdx(PushedEntry(l).input_descriptor_path)
      IN  /\ dk = appended[k].descriptor
          /\ dl = appended[l].descriptor
          /\ PushedEntry(k).verifiable_credential_path = SourceEntry(k).verifiable_credential_path
          /\ \/ dk < dl
             \/ dk = dl /\ appended[k].field < appended[l].field
             \/ /\ dk = dl
                /\ appended[k].field = appended[l].field
                /\ appended[k].src < appended[l].src
                /\ CredentialIdx(PushedEntry(k)) <= CredentialIdx(PushedEntry(l))

C10_Witness ==
  /\ pc = "done"
  /\ \E k, l, m \in 1..Len(appended) :
       /\ k < l /\ l < m
       /\ appended[k].descriptor = appended[l].descriptor
       /\ appended[k].field = appended[l].field
       /\ CredentialIdx(PushedEntry(k)) < CredentialIdx(PushedEntry(l))
       /\ appended[l].field < appended[m].field
       /\ CredentialIdx(PushedEntry(m)) < CredentialIdx(PushedEntry(l))

\* The JSONPath text of a resolved path: $.name for a property, [n] for an index.
RECURSIVE JsonPathText(_)
JsonPathText(path) ==
  IF path = <<>> THEN <<>>
  ELSE LET c == path[Len(path)]
           before == JsonPathText(SubSeq(path, 1, Len(path) - 1))
       IN  IF c.kind = "index" THEN before \o <<"[">> \o ToStr(c.index) \o <<"]">>
           ELSE IF before = <<>> THEN c.name
           ELSE before \o <<".">> \o c.name

\* Field f of descriptor d has predicate set and lists the path that log entry k
\* (a FilterEvaluation entry of descriptor d) resolved.
CorrespondsTo(k, d, f) ==
  LET e == results[k]
  IN  /\ e.evaluator = "FilterEvaluation"
      /\ e.input_descriptor_path = InputDescriptorPath(d - 1)
      /\ e.payload # 0
      /\ heap[e.payload].result # 0
      /\ heap[heap[e.payload].result].hasPath
      /\ pd[d].hasConstraints /\ pd[d].hasFields
      /\ pd[d].fields[f].predicate # Undefined
      /\ Includes(pd[d].fields[f].path, JsonPathText(heap[heap[e.payload].result].path))

Corresponds(k) ==
  \E d \in 1..Len(pd) : \E f \in 1..Len(pd[d].fields) : CorrespondsTo(k, d, f)

\* The entries handle pushed for log entry k.
PushedFor(k) == {m \in 1..Len(appended) : appended[m].src + 1 = k}

\* C12: when handle is done it has pushed exactly one entry for each log entry that
\* corresponds to a field with predicate set, with that entry's descriptor path and
\* credential path, and none for any other log entry.
C12_OneEntryPerCorrespondingResult ==
  pc = "done" =>
    \A k \in 1..Len(results) :
      /\ Cardinality(PushedFor(k)) = IF k <= InitialLength /\ Corresponds(k) THEN 1 ELSE 0
      /\ \A m \in PushedFor(k) :
           /\ PushedEntry(m).input_descriptor_path = results[k].input_descriptor_path
           /\ PushedEntry(m).verifiable_credential_path = results[k].verifiable_credential_path

\* The fields with predicate set of the descriptors that have constraints.fields.
RECURSIVE PredicateFieldCount(_)
PredicateFieldCount(ds) ==
  IF ds = <<>> THEN 0
  ELSE (IF Head(ds).hasConstraints /\ Head(ds).hasFields
        THEN Cardinality({f \in 1..Len(Head(ds).fields) : Head(ds).fields[f].predicate # Undefined})
        ELSE 0) + PredicateFieldCount(Tail(ds))

\* The FilterEvaluation entries of the log as it was when handle was called.
InitialFilterEvaluations ==
  {k \in 1..InitialLength : results[k].evaluator = "FilterEvaluation"}

\* The most entries handle may push by the claim, and the longest the log may get.
PushBound == PredicateFieldCount(pd) * Cardinality(InitialFilterEvaluations)
LengthBound == InitialLength + PushBound

\* The steps handle may still take: one per entry of the log left in the loop over
\* the results, that loop and a step for each field left, and those and two steps
\* for each descriptor left.
StepsPerField == LengthBound + 2
StepsPerDescriptor == FieldCount(pd) * StepsPerField + 2

StepsLeft ==
  LET descriptorsAfter == (Len(pd) - di - 1) * StepsPerDescriptor + 1
      fieldsAfter(f)   == (Len(pd[di + 1].fields) - f) * StepsPerField + 1
  IN  CASE pc = "done"        -> 0
        [] pc = "descriptors" -> (Len(pd) - di) * StepsPerDescriptor + 1
        [] pc = "fields"      -> descriptorsAfter + fieldsAfter(fi)
        [] pc = "results"     -> descriptorsAfter + fieldsAfter(fi + 1) + (LengthBound - rj) + 1

\* C16: handle terminates (every step leaves fewer steps to take, and never fewer
\* than none), and at every moment the entries it has pushed come from
\* FilterEvaluation entries of the initial log only (a pushed entry is never
\* converted) and are at most (fields with predicate) x (FilterEvaluation entries
\* of the initial log).
C16_TerminatesWithinBound ==
  [][/\ StepsLeft' < StepsLeft
     /\ StepsLeft' >= 0
     /\ \A k \in 1..Len(appended') : appended'[k].src + 1 \in InitialFilterEvaluations
     /\ Len(appended') <= PushBound
     /\ PushBound' = PushBound]_vars

C16_Witness ==
  /\ pc = "done"
  /\ Len(appended) = 2
  /\ PredicateFieldCount(pd) = 1
  /\ Cardinality(InitialFilterEvaluations) = 2
  /\ rj = Len(results)

\* C17: no entry is pushed for a FilterEvaluation entry whose status is error,
\* whatever its payload.
C17_NoEntryForErrorResult ==
  \A k \in 1..Len(appended) :
    ~ ( /\ SourceEntry(k).evaluator = "FilterEvaluation"
        /\ SourceEntry(k).status = StatusError
        /\ PushedEntry(k).evaluator = getName
        /\ PushedEntry(k).status = StatusInfo
        /\ PushedEntry(k).message = PredicateMessage )

(***************************************************************************)
(* PEX.constructPresentation.  An array is a sequence of strings; the      *)
(* base payload's `type` and '@context' are undefined, a single value or   *)
(* an array.  The function pushes onto the base payload's own arrays, so   *)
(* the operator gives the presentation and the base payload after the call.*)
(***************************************************************************)
CredentialsContext == "https://www.w3.org/2018/credentials/v1"
SubmissionContext == "https://identity.foundation/presentation-exchange/submission/v1"
VerifiablePresentationType == "VerifiablePresentation"
PresentationSubmissionType == "PresentationSubmission"

\* kind: "undefined" (items <<>>), "single" (items <<v>>) or "array".
Property(kind, items) == [kind |-> kind, items |-> items]

\* The base payload's type, '@context' and presentation_submission (an IPresentation
\* may have one); an absent base payload has all three undefined.
BasePayload(type, context, presentation_submission) ==
  [type |-> type, context |-> context, presentation_submission |-> presentation_submission]

NoBasePayload == BasePayload(Property("undefined", <<>>), Property("undefined", <<>>), Undefined)

\* A base payload that is itself a presentation with a submission.
BaseWithSubmission ==
  BasePayload(Property("array", <<VerifiablePresentationType, PresentationSubmissionType>>),
              Property("single", <<SubmissionContext>>), "base submission")

\* if (!arr.includes(x)) { arr.push(x) }
PushAlways(arr, x) == Append(arr, x)
PushIfAbsent(arr, x) == IF Includes(arr, x) THEN arr ELSE Append(arr, x)

\* lines 287-296: the array the function works on (the base payload's own array, or
\* a new one around its single value, or a new empty one).
ArrayOf(property) == property.items

\* lines 297-311
WithRequired(arr, always, withSubmission, presentationSubmission) ==
  LET first == PushIfAbsent(arr, always)
  IN  IF presentationSubmission # Undefined THEN PushIfAbsent(first, withSubmission) ELSE first

constructPresentation(selectedCredentials, opts) ==
  LET base    == opts.basePresentationPayload
      type    == WithRequired(ArrayOf(base.type), VerifiablePresentationType,
                              PresentationSubmissionType, opts.presentationSubmission)
      context == WithRequired(ArrayOf(base.context), CredentialsContext,
                              SubmissionContext, opts.presentationSubmission)
  IN  [presentation |->
         [context |-> context, type |-> type, holder |-> opts.holderDID,
          \* lines 313, 317: the base payload's, unless opts gives one
          presentation_submission |->
            IF opts.presentationSubmission # Undefined THEN opts.presentationSubmission
            ELSE base.presentation_submission,
          verifiableCredential |-> selectedCredentials],
       \* an array of the base payload is the array that was pushed onto
       basePresentationPayload |->
         BasePayload(IF base.type.kind = "array" THEN Property("array", type) ELSE base.type,
                     IF base.context.kind = "array" THEN Property("array", context)
                     ELSE base.context,
                     base.presentation_submission)]

TypeValues == {VerifiablePresentationType, PresentationSubmissionType, "Custom"}
ContextValues == {CredentialsContext, SubmissionContext, "https://example.org/ctx"}

Properties(values) ==
  {Property("undefined", <<>>)}
    \cup {Property("single", <<v>>) : v \in values}
    \cup {Property("array", a) : a \in UNION {[1..n -> values] : n \in 0..MaxBase}}

ConstructOpts ==
  [presentationSubmission : {Undefined, "submission"},
   holderDID : {Undefined},
   basePresentationPayload :
     [type : Properties(TypeValues), context : Properties(ContextValues),
      presentation_submission : {Undefined, "base submission"}]]

ConstructInit ==
  /\ NoHandle
  /\ NoPex
  /\ NoLimitDisclosure
  /\ cp \in [pc : {"call"}, opts : ConstructOpts]

Construct ==
  /\ cp.pc = "call"
  /\ cp' = [pc |-> "done", opts |-> cp.opts, out |-> constructPresentation("credentials", cp.opts)]
  /\ UNCHANGED <<hvars, pvars, lim>>

ConstructNext == Construct

SpecConstruct == ConstructInit /\ [][ConstructNext]_vars

RECURSIVE Count(_, _)
Count(arr, x) ==
  IF arr = <<>> THEN 0 ELSE (IF Head(arr) = x THEN 1 ELSE 0) + Count(Tail(arr), x)

\* C6 as claimed: the presentation's '@context' has the credentials context and its
\* type has 'VerifiablePresentation', and with a submission embedded they also have
\* the submission context and 'PresentationSubmission', each exactly once.
C6_RequiredValuesExactlyOnce ==
  cp.pc = "done" =>
    LET p == cp.out.presentation
    IN  /\ Count(p.context, CredentialsContext) = 1
        /\ Count(p.type, VerifiablePresentationType) = 1
        /\ p.presentation_submission # Undefined =>
             /\ Count(p.type, PresentationSubmissionType) = 1
             /\ Count(p.context, SubmissionContext) = 1

\* How often x is in the result when the base payload has it n times.
OnceOrAsGiven(n) == IF n = 0 THEN 1 ELSE n

\* C6 as amended: the credentials context and 'VerifiablePresentation', and when
\* opts gives a presentation submission (which is then the one embedded) also the
\* submission context and 'PresentationSubmission', are in the presentation, each
\* once when the base payload does not have it and otherwise as often as the base
\* payload has it (the function adds none that is already there and removes none).
C6_RequiredValuesPresentNoneAdded ==
  cp.pc = "done" =>
    LET p    == cp.out.presentation
        base == cp.opts.basePresentationPayload
    IN  /\ Count(p.context, CredentialsContext)
             = OnceOrAsGiven(Count(base.context.items, CredentialsContext))
        /\ Count(p.type, VerifiablePresentationType)
             = OnceOrAsGiven(Count(base.type.items, VerifiablePresentationType))
        /\ cp.opts.presentationSubmission # Undefined =>
             /\ p.presentation_submission = cp.opts.presentationSubmission
             /\ Count(p.type, PresentationSubmissionType)
                  = OnceOrAsGiven(Count(base.type.items, PresentationSubmissionType))
             /\ Count(p.context, SubmissionContext)
                  = OnceOrAsGiven(Count(base.context.items, SubmissionContext))

C6_Witness ==
  /\ cp.pc = "done"
  /\ cp.opts.presentationSubmission # Undefined
  /\ cp.opts.basePresentationPayload.type = Property("array", <<"Custom", VerifiablePresentationType>>)
  /\ cp.opts.basePresentationPayload.context = Property("single", <<SubmissionContext>>)
  /\ cp.out.presentation.type = <<"Custom", VerifiablePresentationType, PresentationSubmissionType>>
  /\ cp.out.presentation.context = <<SubmissionContext, CredentialsContext>>

\* C18: constructPresentation leaves the caller's opts.basePresentationPayload as
\* it was: its '@context' and type hold after the call the values they held before.
C18_BasePayloadUnchanged ==
  cp.pc = "done" =>
    /\ cp.out.basePresentationPayload.type = cp.opts.basePresentationPayload.type
    /\ cp.out.basePresentationPayload.context = cp.opts.basePresentationPayload.context

(***************************************************************************)
(* The PEX instance.  EvaluationClientWrapper is a collaborator: a call of *)
(* one of its methods is recorded with the instance it ran on, and what it *)
(* returns is any of the outcomes below.                                   *)
(***************************************************************************)
\* constructor, line 120: the first wrapper instance.
NewPEX == [wrapper |-> 1, created |-> 1, used |-> {}]

\* A call of a wrapper method: the instance, whether it was created in the PEX
\* method making the call, whether it had served an earlier PEX method, and the
\* arguments (the credentials, whether they are a copy of the caller's, the opts).
WrapperCall(inst, method, createdInCall, servedBefore, credentials, copied, opts) ==
  [inst |-> inst, method |-> method, createdInCall |-> createdInCall,
   servedBefore |-> servedBefore, credentials |-> credentials, copied |-> copied,
   opts |-> opts]

\* What EvaluationClientWrapper.evaluate may return.
EvaluationResults(value, descriptorMapLength, errors, areRequiredCredentialsPresent, verifiableCredential) ==
  [value |-> value, descriptorMapLength |-> descriptorMapLength, errors |-> errors,
   areRequiredCredentialsPresent |-> areRequiredCredentialsPresent,
   verifiableCredential |-> verifiableCredential]

StatusWarn == "warn"

EvaluateOutcomes ==
  {EvaluationResults(v[1], v[2], e, a, c) :
     v \in {<<Undefined, 0>>, <<"submission", 0>>, <<"submission", 1>>},
     e \in {<<>>, <<"evaluation error">>},
     a \in {StatusInfo},
     c \in {"projected"}}

\* What EvaluationClientWrapper.selectFrom may return.
SelectResults(areRequiredCredentialsPresent, errors) ==
  [areRequiredCredentialsPresent |-> areRequiredCredentialsPresent, errors |-> errors]

SelectOutcomes ==
  {SelectResults(a, e) : a \in {StatusInfo, StatusWarn, StatusError},
                         e \in {<<>>, <<"selection error">>}}

NotRun == SelectResults(Undefined, <<>>)
NoResults == EvaluationResults(Undefined, 0, <<>>, Undefined, Undefined)

\* result.value && result.value.descriptor_map.length
HasDescriptors(result) == result.value # Undefined /\ result.descriptorMapLength # 0

\* What a PEX method did: the instance after it, whether it threw, what it returned,
\* the wrapper calls it made, and what evaluate and selectFrom returned to it.
Done(after, threw, result, calls, evaluated, selected) ==
  [pex |-> after, threw |-> threw, result |-> result, calls |-> calls,
   evaluated |-> evaluated, selected |-> selected]

\* opts of evaluatePresentation / evaluateCredentials / selectFrom; an absent opts
\* is the record of undefined properties (an absent list of suites is <<>>).
EvaluationOpts(suites, presentationSubmission, generatePresentationSubmission) ==
  [limitDisclosureSignatureSuites |-> suites, presentationSubmission |-> presentationSubmission,
   generatePresentationSubmission |-> generatePresentationSubmission]

\* lines 145-146
generatePresentationSubmission(opts) ==
  IF opts.generatePresentationSubmission # Undefined
  THEN opts.generatePresentationSubmission = "true"
  ELSE opts.presentationSubmission # Undefined

\* evaluatePresentation, lines 134-172; r and s are what the wrappers return.
evaluatePresentation(P, presentation, opts, r, s) ==
  LET generate == generatePresentationSubmission(opts)
      presentationSubmission ==
        IF opts.presentationSubmission # Undefined THEN opts.presentationSubmission
        ELSE presentation.presentation_submission
      updatedOpts == EvaluationOpts(opts.limitDisclosureSignatureSuites, presentationSubmission,
                                    IF generate THEN "true" ELSE "false")
      evaluate == WrapperCall(P.wrapper, "evaluate", FALSE, P.wrapper \in P.used,
                              presentation.verifiableCredential, TRUE, updatedOpts)
      select   == WrapperCall(P.created + 1, "selectFrom", TRUE, FALSE,
                              presentation.verifiableCredential, TRUE, updatedOpts)
  IN  IF presentationSubmission = Undefined /\ ~generate
      THEN Done(P, TRUE, NoResults, <<>>, NoResults, NotRun)
      ELSE IF HasDescriptors(r)
      THEN Done([P EXCEPT !.created = @ + 1, !.used = @ \cup {P.wrapper, P.created + 1}],
                FALSE,
                IF s.areRequiredCredentialsPresent # StatusError THEN [r EXCEPT !.errors = <<>>] ELSE r,
                <<evaluate, select>>, r, s)
      ELSE Done([P EXCEPT !.used = @ \cup {P.wrapper}], FALSE, r, <<evaluate>>, r, NotRun)

\* lines 202-209: the results evaluateCredentials returns.
KeepEvaluated(r, s) ==
  IF HasDescriptors(r)
  THEN [r EXCEPT !.areRequiredCredentialsPresent = s.areRequiredCredentialsPresent,
                 !.errors = s.errors]
  ELSE r
CredentialsResult(r, s) ==
  IF HasDescriptors(r)
  THEN [r EXCEPT !.areRequiredCredentialsPresent = s.areRequiredCredentialsPresent,
                 !.errors = s.errors]
  ELSE [r EXCEPT !.areRequiredCredentialsPresent = StatusError]

\* evaluateCredentials, lines 185-211
evaluateCredentials(P, verifiableCredentials, opts, r, s) ==
  LET evaluate == WrapperCall(P.created + 1, "evaluate", TRUE, FALSE, verifiableCredentials, FALSE, opts)
      select   == WrapperCall(P.created + 2, "selectFrom", TRUE, FALSE, verifiableCredentials, FALSE, opts)
  IN  IF HasDescriptors(r)
      THEN Done([wrapper |-> P.created + 1, created |-> P.created + 2,
                 used |-> P.used \cup {P.created + 1, P.created + 2}],
                FALSE, CredentialsResult(r, s), <<evaluate, select>>, r, s)
      ELSE Done([wrapper |-> P.created + 1, created |-> P.created + 1,
                 used |-> P.used \cup {P.created + 1}],
                FALSE, CredentialsResult(r, NotRun), <<evaluate>>, r, NotRun)

\* selectFrom, lines 224-239
selectFrom(P, verifiableCredentials, opts, s) ==
  Done([wrapper |-> P.created + 1, created |-> P.created + 1, used |-> P.used \cup {P.created + 1}],
       FALSE, s,
       <<WrapperCall(P.created + 1, "selectFrom", TRUE, FALSE, verifiableCredentials, TRUE, opts)>>,
       NoResults, s)

NoOpts == EvaluationOpts(<<>>, Undefined, Undefined)

\* presentationSubmissionFrom, lines 241-247; sub is what submissionFrom returns.
presentationSubmissionFrom(P, selectedCredentials, sub) ==
  Done([P EXCEPT !.used = @ \cup {P.wrapper}], FALSE, sub,
       <<WrapperCall(P.wrapper, "submissionFrom", FALSE, P.wrapper \in P.used,
                     selectedCredentials, FALSE, NoOpts)>>,
       NoResults, NotRun)

PresentationSubmissionLocationPresentation == "PRESENTATION"
PresentationSubmissionLocationExternal == "EXTERNAL"

\* opts.presentationSubmissionLocation ?? PresentationSubmissionLocation.PRESENTATION
LocationOrDefault(location) ==
  IF location = Undefined THEN PresentationSubmissionLocationPresentation ELSE location

\* line 269: the submission handed to constructPresentation
AlwaysEmbedded(presentationSubmissionLocation, presentationSubmission) == presentationSubmission
EmbeddedSubmission(presentationSubmissionLocation, presentationSubmission) ==
  IF presentationSubmissionLocation = PresentationSubmissionLocationPresentation
  THEN presentationSubmission ELSE Undefined

\* presentationFrom, lines 260-276
presentationFrom(P, selectedCredentials, opts, sub) ==
  LET presentationSubmissionLocation == LocationOrDefault(opts.presentationSubmissionLocation)
      submission == presentationSubmissionFrom(P, selectedCredentials, sub)
      built == constructPresentation(selectedCredentials,
                 [presentationSubmission |->
                    EmbeddedSubmission(presentationSubmissionLocation, submission.result),
                  holderDID |-> opts.holderDID,
                  basePresentationPayload |-> opts.basePresentationPayload])
  IN  Done(submission.pex, FALSE,
           [presentation |-> built.presentation,
            presentationSubmissionLocation |-> presentationSubmissionLocation,
            presentationSubmission |-> submission.result],
           submission.calls, NoResults, NotRun)

(***************************************************************************)
(* verifiablePresentationFrom, lines 380-445, one statement at a time.     *)
(***************************************************************************)
ProofOptions(type, typeSupportsSelectiveDisclosure) ==
  [type |-> type, typeSupportsSelectiveDisclosure |-> typeSupportsSelectiveDisclosure]

\* limitedDisclosureSuites, lines 390-399; an absent or empty type is falsy.
SuitesWithoutTypeCheck(proofOptions) ==
  IF proofOptions.typeSupportsSelectiveDisclosure = "true" /\ proofOptions.type \notin {Undefined, ""}
  THEN [threw |-> FALSE, suites |-> <<proofOptions.type>>]
  ELSE [threw |-> FALSE, suites |-> <<>>]
limitedDisclosureSuites(proofOptions) ==
  IF proofOptions.typeSupportsSelectiveDisclosure = "true"
  THEN IF proofOptions.type \in {Undefined, ""}
       THEN [threw |-> TRUE, suites |-> <<>>]
       ELSE [threw |-> FALSE, suites |-> <<proofOptions.type>>]
  ELSE [threw |-> FALSE, suites |-> <<>>]

\* lines 440-444
ResultWithoutSignature(verifiablePresentation, presentationSubmissionLocation, presentationSubmission) ==
  [verifiablePresentation |-> Undefined,
   presentationSubmissionLocation |-> presentationSubmissionLocation,
   presentationSubmission |-> presentationSubmission]
VerifiablePresentationResult(verifiablePresentation, presentationSubmissionLocation, presentationSubmission) ==
  [verifiablePresentation |-> verifiablePresentation,
   presentationSubmissionLocation |-> presentationSubmissionLocation,
   presentationSubmission |-> presentationSubmission]

NoPresentationResult ==
  [presentation |-> constructPresentation(Undefined,
                      [presentationSubmission |-> Undefined, holderDID |-> Undefined,
                       basePresentationPayload |-> NoBasePayload]).presentation,
   presentationSubmissionLocation |-> Undefined, presentationSubmission |-> Undefined]

VpfIdle ==
  [pc |-> "idle", opts |-> <<>>, suites |-> <<>>, evaluationResult |-> NoResults,
   presentationResult |-> NoPresentationResult, evaluationResults |-> NoResults,
   steps |-> <<>>, calls |-> <<>>, callbackCalls |-> 0, resolved |-> Undefined,
   result |-> VerifiablePresentationResult(Undefined, Undefined, Undefined)]

NoCall == [op |-> "none"]

(***************************************************************************)
(* The inputs of the PEX methods.                                          *)
(***************************************************************************)
Presentations ==
  {constructPresentation("credentials",
     [presentationSubmission |-> ps, holderDID |-> Undefined,
      basePresentationPayload |-> NoBasePayload]).presentation :
     ps \in {Undefined, "embedded submission"}}

PresentationOpts ==
  {EvaluationOpts(<<>>, ps, g) :
     ps \in {Undefined, "given submission"}, g \in {Undefined, "true", "false"}}

CredentialsOpts ==
  {EvaluationOpts(suites, Undefined, Undefined) : suites \in {<<>>, <<"BbsBlsSignature2020">>}}

PresentationFromOpts ==
  [presentationSubmissionLocation :
     {Undefined, PresentationSubmissionLocationPresentation, PresentationSubmissionLocationExternal},
   holderDID : {Undefined},
   basePresentationPayload : {NoBasePayload, BaseWithSubmission}]

VerifiablePresentationFromOpts ==
  [presentationSubmissionLocation :
     {Undefined, PresentationSubmissionLocationPresentation, PresentationSubmissionLocationExternal},
   holderDID : {Undefined},
   basePresentationPayload : {NoBasePayload, BaseWithSubmission},
   proofOptions : {ProofOptions(t, d) : t \in {Undefined, "", "BbsBlsSignature2020"},
                                        d \in {Undefined, "true", "false"}}]

SignedPresentations == {"signed presentation A", "signed presentation B"}

(***************************************************************************)
(* The caller's data.  The objects of a call live in a store (a sequence,  *)
(* an object's reference its position); the evaluation may replace a       *)
(* credential of the object it is handed by its limit-disclosure           *)
(* projection.                                                             *)
(***************************************************************************)
\* JSON.parse(JSON.stringify(o)): a new object with the content of o.
SameObject(store, ref) == [store |-> store, ref |-> ref]
JsonCopy(store, ref) == [store |-> Append(store, store[ref]), ref |-> Len(store) + 1]

Effects == {"none", "projects"}

\* The store after the evaluation ran on the credential array at ref.
EvaluatedCredentials(store, ref, effect) ==
  IF effect = "projects" THEN [store EXCEPT ![ref] = "projected"] ELSE store

\* The store after the evaluation ran on the credentials of the presentation at ref.
EvaluatedPresentation(store, ref, effect) ==
  IF effect = "projects" THEN [store EXCEPT ![ref].verifiableCredential = "projected"] ELSE store

\* selectFrom, lines 234-238: the caller's array after the call.
CredentialsAfterSelectFrom(verifiableCredentials, effect) ==
  LET verifiableCredentialCopy == JsonCopy(<<verifiableCredentials>>, 1)
  IN  EvaluatedCredentials(verifiableCredentialCopy.store, verifiableCredentialCopy.ref, effect)[1]

\* evaluatePresentation, lines 148-166: the caller's presentation after the call.
PresentationAfterEvaluate(presentation, did, effect) ==
  LET presentationCopy == JsonCopy(<<presentation>>, 1)
  IN  IF did.threw THEN presentationCopy.store[1]
      ELSE EvaluatedPresentation(presentationCopy.store, presentationCopy.ref, effect)[1]

(***************************************************************************)
(* Calls on one PEX instance.  A method runs to its end before the next    *)
(* call; verifiablePresentationFrom alone is followed statement by         *)
(* statement, up to the awaited signing callback and its settling.         *)
(***************************************************************************)
PexInit ==
  /\ NoHandle
  /\ NoConstruct
  /\ NoLimitDisclosure
  /\ pex = NewPEX
  /\ ncalls = 0
  /\ last = NoCall
  /\ vpf = VpfIdle

MayCall == ncalls < MaxCalls /\ vpf.pc = "idle"

Called(op, input, opts, did) ==
  /\ pex' = did.pex
  /\ last' = [op |-> op, input |-> input, opts |-> opts, did |-> did]
  /\ ncalls' = ncalls + 1
  /\ vpf' = VpfIdle
  /\ UNCHANGED <<hvars, cp, lim>>

\* A call of a method that copies its input: also what the evaluation did to what
\* it was handed, and the caller's input after the call.
CalledWithCopy(op, input, opts, did, effect, inputAfter) ==
  /\ pex' = did.pex
  /\ last' = [op |-> op, input |-> input, opts |-> opts, did |-> did,
              effect |-> effect, inputAfter |-> inputAfter]
  /\ ncalls' = ncalls + 1
  /\ vpf' = VpfIdle
  /\ UNCHANGED <<hvars, cp, lim>>

CallEvaluatePresentation ==
  /\ MayCall
  /\ \E presentation \in Presentations, opts \in PresentationOpts,
        r \in EvaluateOutcomes, s \in SelectOutcomes, effect \in Effects :
       LET did == evaluatePresentation(pex, presentation, opts, r, s)
       IN  CalledWithCopy("evaluatePresentation", presentation, opts, did, effect,
                          PresentationAfterEvaluate(presentation, did, effect))

CallEvaluateCredentials ==
  /\ MayCall
  /\ \E opts \in CredentialsOpts, r \in EvaluateOutcomes, s \in SelectOutcomes :
       Called("evaluateCredentials", "credentials", opts,
              evaluateCredentials(pex, "credentials", opts, r, s))

CallSelectFrom ==
  /\ MayCall
  /\ \E opts \in CredentialsOpts, s \in SelectOutcomes, effect \in Effects :
       CalledWithCopy("selectFrom", "credentials", opts, selectFrom(pex, "credentials", opts, s),
                      effect, CredentialsAfterSelectFrom("credentials", effect))

CallPresentationSubmissionFrom ==
  /\ MayCall
  /\ Called("presentationSubmissionFrom", "credentials", NoOpts,
            presentationSubmissionFrom(pex, "credentials", "submission"))

CallPresentationFrom ==
  /\ MayCall
  /\ \E opts \in PresentationFromOpts :
       Called("presentationFrom", "credentials", opts,
              presentationFrom(pex, "credentials", opts, "submission"))

\* line 386-388: the call begins.
VpfCall ==
  /\ MayCall
  /\ \E opts \in VerifiablePresentationFromOpts :
       vpf' = [VpfIdle EXCEPT !.pc = "limitedDisclosureSuites", !.opts = opts]
  /\ ncalls' = ncalls + 1
  /\ last' = NoCall
  /\ UNCHANGED <<hvars, cp, lim, pex>>

\* line 402
VpfLimitedDisclosureSuites ==
  /\ vpf.pc = "limitedDisclosureSuites"
  /\ LET got == limitedDisclosureSuites(vpf.opts.proofOptions)
     IN  vpf' = [vpf EXCEPT !.pc = IF got.threw THEN "threw" ELSE "evaluateCredentials",
                            !.suites = got.suites,
                            !.steps = Append(@, "limitedDisclosureSuites")]
  /\ UNCHANGED <<hvars, cp, lim, pex, ncalls, last>>

\* lines 403-406
VpfEvaluateCredentials ==
  /\ vpf.pc = "evaluateCredentials"
  /\ \E r \in EvaluateOutcomes, s \in SelectOutcomes :
       LET did == evaluateCredentials(pex, "credentials",
                                      EvaluationOpts(vpf.suites, Undefined, Undefined), r, s)
       IN  /\ pex' = did.pex
           /\ vpf' = [vpf EXCEPT !.pc = "presentationFrom",
                                 !.evaluationResult = did.result,
                                 !.calls = @ \o did.calls,
                                 !.steps = Append(@, "evaluateCredentials")]
  /\ UNCHANGED <<hvars, cp, lim, ncalls, last>>

\* lines 408-411
VpfPresentationFrom ==
  /\ vpf.pc = "presentationFrom"
  /\ LET did == presentationFrom(pex, vpf.evaluationResult.verifiableCredential,
                  [presentationSubmissionLocation |->
                     LocationOrDefault(vpf.opts.presentationSubmissionLocation),
                   holderDID |-> vpf.opts.holderDID,
                   basePresentationPayload |-> vpf.opts.basePresentationPayload],
                  "submission")
     IN  /\ pex' = did.pex
         /\ vpf' = [vpf EXCEPT !.pc = "evaluatePresentation",
                               !.presentationResult = did.result,
                               !.calls = @ \o did.calls,
                               !.steps = Append(@, "presentationFrom")]
  /\ UNCHANGED <<hvars, cp, lim, ncalls, last>>

\* line 413: !evaluationResults.value
ValueNeverMissing(evaluationResults) == FALSE
HasNoValue(evaluationResults) == evaluationResults.value = Undefined

\* lines 412-415
VpfEvaluatePresentation ==
  /\ vpf.pc = "evaluatePresentation"
  /\ \E r \in EvaluateOutcomes, s \in SelectOutcomes :
       LET did == evaluatePresentation(pex, vpf.presentationResult.presentation,
                                       EvaluationOpts(vpf.suites, Undefined, Undefined), r, s)
       IN  /\ pex' = did.pex
           /\ vpf' = [vpf EXCEPT !.pc = IF did.threw \/ HasNoValue(did.result)
                                        THEN "threw" ELSE "signingCallBack",
                                 !.evaluationResults = did.result,
                                 !.calls = @ \o did.calls,
                                 !.steps = IF did.threw THEN @ ELSE Append(@, "evaluatePresentation")]
  /\ UNCHANGED <<hvars, cp, lim, ncalls, last>>

\* lines 417-438: the callback is called with the parameters and awaited.
VpfSigningCallBack ==
  /\ vpf.pc = "signingCallBack"
  /\ vpf' = [vpf EXCEPT !.pc = "await",
                        !.callbackCalls = @ + 1,
                        !.steps = Append(@, "signingCallBack")]
  /\ UNCHANGED <<hvars, cp, lim, pex, ncalls, last>>

\* lines 438-444: the callback's promise is fulfilled (or it returned a value).
VpfFulfilled ==
  /\ vpf.pc = "await"
  /\ \E signed \in SignedPresentations :
       vpf' = [vpf EXCEPT !.pc = "returned",
                          !.resolved = signed,
                          !.result = VerifiablePresentationResult(signed,
                                       LocationOrDefault(vpf.opts.presentationSubmissionLocation),
                                       vpf.evaluationResults.value)]
  /\ UNCHANGED <<hvars, cp, lim, pex, ncalls, last>>

\* line 438: the callback threw or its promise was rejected.
VpfRejected ==
  /\ vpf.pc = "await"
  /\ vpf' = [vpf EXCEPT !.pc = "threw"]
  /\ UNCHANGED <<hvars, cp, lim, pex, ncalls, last>>

\* The caller has the promise's outcome; the instance is free for the next call.
VpfSettled ==
  /\ vpf.pc \in {"returned", "threw"}
  /\ vpf' = VpfIdle
  /\ UNCHANGED <<hvars, cp, lim, pex, ncalls, last>>

PexNext ==
  \/ CallEvaluatePresentation
  \/ CallEvaluateCredentials
  \/ CallSelectFrom
  \/ CallPresentationSubmissionFrom
  \/ CallPresentationFrom
  \/ VpfCall
  \/ VpfLimitedDisclosureSuites
  \/ VpfEvaluateCredentials
  \/ VpfPresentationFrom
  \/ VpfEvaluatePresentation
  \/ VpfSigningCallBack
  \/ VpfFulfilled
  \/ VpfRejected
  \/ VpfSettled

SpecPEX == PexInit /\ [][PexNext]_vars

(***************************************************************************)
(* Properties of the PEX methods.                                          *)
(***************************************************************************)
\* Step a of verifiablePresentationFrom was done, and before step b.
DoneBefore(a, b) ==
  \E m, n \in 1..Len(vpf.steps) : m < n /\ vpf.steps[m] = a /\ vpf.steps[n] = b

\* C4: verifiablePresentationFrom calls the signing callback at most once, after
\* evaluateCredentials and after the evaluation of the constructed presentation,
\* and returns the value the callback resolved to as verifiablePresentation.
C4_SignedOnceAfterEvaluation ==
  /\ vpf.callbackCalls <= 1
  /\ vpf.callbackCalls = 1 =>
       /\ DoneBefore("evaluateCredentials", "evaluatePresentation")
       /\ DoneBefore("evaluatePresentation", "signingCallBack")
  /\ vpf.pc \in {"await", "returned"} => vpf.callbackCalls = 1
  /\ vpf.pc = "returned" =>
       /\ vpf.resolved \in SignedPresentations
       /\ vpf.result.verifiablePresentation = vpf.resolved

C4_Witness ==
  /\ vpf.pc = "returned"
  /\ vpf.callbackCalls = 1
  /\ vpf.resolved = "signed presentation B"
  /\ vpf.result.verifiablePresentation = "signed presentation B"
  /\ vpf.steps = <<"limitedDisclosureSuites", "evaluateCredentials", "presentationFrom",
                   "evaluatePresentation", "signingCallBack">>

OnFreshWrapper(c) == c.createdInCall /\ ~c.servedBefore

AllOnFreshWrapper(calls) == \A k \in 1..Len(calls) : OnFreshWrapper(calls[k])

\* C5: every call of evaluatePresentation, evaluateCredentials, selectFrom or
\* presentationSubmissionFrom, made directly or by verifiablePresentationFrom, runs
\* the wrapper's methods on an instance created in that call that served no
\* earlier call.
C5_WrapperCreatedPerCall ==
  /\ last.op \in {"evaluatePresentation", "evaluateCredentials", "selectFrom",
                  "presentationSubmissionFrom"} =>
       AllOnFreshWrapper(last.did.calls)
  /\ AllOnFreshWrapper(vpf.calls)

\* C7: evaluatePresentation without opts.presentationSubmission and without
\* generatePresentationSubmission, on a presentation that embeds no submission,
\* does not throw: it evaluates with a submission to be generated.
C7_GeneratesWithoutSubmission ==
  ( /\ last.op = "evaluatePresentation"
    /\ last.opts.presentationSubmission = Undefined
    /\ last.opts.generatePresentationSubmission = Undefined
    /\ last.input.presentation_submission = Undefined )
  => /\ ~last.did.threw
     /\ Len(last.did.calls) >= 1
     /\ last.did.calls[1].method = "evaluate"
     /\ last.did.calls[1].opts.generatePresentationSubmission = "true"

SelectiveDisclosure == vpf.opts.proofOptions.typeSupportsSelectiveDisclosure = "true"

NoProofType == vpf.opts.proofOptions.type \in {Undefined, ""}

ExpectedSuites == IF SelectiveDisclosure THEN <<vpf.opts.proofOptions.type>> ELSE <<>>

WithExpectedSuites(c) ==
  c.method \in {"evaluate", "selectFrom"} => c.opts.limitDisclosureSignatureSuites = ExpectedSuites

AllWithExpectedSuites(calls) == \A k \in 1..Len(calls) : WithExpectedSuites(calls[k])

\* C8: with typeSupportsSelectiveDisclosure enabled and no proof type,
\* verifiablePresentationFrom throws before any evaluation and never calls the
\* signing callback; otherwise every evaluation gets the suites [proofOptions.type]
\* when selective disclosure is enabled and no suite when it is not.
C8_SuitesOrInputError ==
  Len(vpf.steps) >= 1 =>
    IF SelectiveDisclosure /\ NoProofType
    THEN /\ vpf.pc = "threw"
         /\ vpf.steps = <<"limitedDisclosureSuites">>
         /\ vpf.calls = <<>>
         /\ vpf.callbackCalls = 0
    ELSE /\ vpf.suites = ExpectedSuites
         /\ AllWithExpectedSuites(vpf.calls)
         /\ Len(vpf.steps) >= 2 => Len(vpf.calls) >= 1

C8_Witness ==
  /\ vpf.pc = "threw"
  /\ SelectiveDisclosure
  /\ vpf.opts.proofOptions.type = Undefined
  /\ vpf.calls = <<>>
  /\ vpf.callbackCalls = 0

\* C9: evaluateCredentials returns; when the evaluation gave no submission or an
\* empty descriptor_map its areRequiredCredentialsPresent is error, and otherwise
\* its areRequiredCredentialsPresent and errors are those selectFrom returned for
\* the same credentials and options.
C9_UnsatisfiedIsReturned ==
  last.op = "evaluateCredentials" =>
    /\ ~last.did.threw
    /\ IF last.did.evaluated.value = Undefined \/ last.did.evaluated.descriptorMapLength = 0
       THEN /\ last.did.result.areRequiredCredentialsPresent = StatusError
            /\ Len(last.did.calls) = 1
       ELSE /\ last.did.result.areRequiredCredentialsPresent
                 = last.did.selected.areRequiredCredentialsPresent
            /\ last.did.result.errors = last.did.selected.errors
            /\ Len(last.did.calls) = 2
            /\ last.did.calls[2].method = "selectFrom"
            /\ last.did.calls[2].credentials = last.did.calls[1].credentials
            /\ last.did.calls[2].opts = last.did.calls[1].opts

C9_Witness ==
  /\ last.op = "evaluateCredentials"
  /\ last.did.evaluated.value = "submission"
  /\ last.did.evaluated.descriptorMapLength = 0
  /\ last.did.evaluated.areRequiredCredentialsPresent = StatusInfo
  /\ last.did.result.areRequiredCredentialsPresent = StatusError
  /\ ~last.did.threw

\* Step a of verifiablePresentationFrom was done.
DidStep(a) == \E m \in 1..Len(vpf.steps) : vpf.steps[m] = a

\* evaluateCredentials found the selected credentials to satisfy the definition.
CredentialsSatisfy ==
  /\ HasDescriptors(vpf.evaluationResult)
  /\ vpf.evaluationResult.areRequiredCredentialsPresent # StatusError

\* C13: with either presentationSubmissionLocation, for credentials that satisfy
\* the definition, verifiablePresentationFrom does not fail before the constructed
\* presentation is evaluated: it fails before the signing callback only when that
\* evaluation ran and gave no value; and what it returns carries the location and a
\* presentation submission.
C13_BothLocationsReachSigning ==
  /\ ( /\ vpf.pc = "threw"
       /\ CredentialsSatisfy
       /\ DidStep("presentationFrom")
       /\ vpf.callbackCalls = 0 )
     => /\ DidStep("evaluatePresentation")
        /\ vpf.evaluationResults.value = Undefined
  /\ vpf.pc = "returned" =>
       /\ vpf.result.presentationSubmissionLocation
            = LocationOrDefault(vpf.opts.presentationSubmissionLocation)
       /\ vpf.result.presentationSubmission # Undefined

\* C14: when the evaluation of the constructed presentation gave no submission
\* value, verifiablePresentationFrom has thrown and the signing callback was not
\* called.
C14_NoValueNothingSigned ==
  (DidStep("evaluatePresentation") /\ vpf.evaluationResults.value = Undefined) =>
    /\ vpf.pc = "threw"
    /\ vpf.callbackCalls = 0
    /\ ~DidStep("signingCallBack")
    /\ vpf.resolved = Undefined

C14_Witness ==
  /\ vpf.pc = "threw"
  /\ DidStep("evaluatePresentation")
  /\ vpf.presentationResult.presentation.presentation_submission # Undefined
  /\ vpf.evaluationResults.value = Undefined
  /\ vpf.callbackCalls = 0

\* C15 as claimed: presentationFrom returns the synthesized submission as
\* presentationSubmission; with the location PRESENTATION (the default) the
\* presentation embeds it and has the 'PresentationSubmission' type and the
\* submission context; with EXTERNAL the presentation has no presentation_submission
\* and no such type or context.
C15_EmbeddedIffPresentation ==
  last.op = "presentationFrom" =>
    LET location == LocationOrDefault(last.opts.presentationSubmissionLocation)
        result   == last.did.result
        p        == result.presentation
    IN  /\ result.presentationSubmission = "submission"
        /\ result.presentationSubmissionLocation = location
        /\ IF location = PresentationSubmissionLocationPresentation
           THEN /\ p.presentation_submission = result.presentationSubmission
                /\ Includes(p.type, PresentationSubmissionType)
                /\ Includes(p.context, SubmissionContext)
           ELSE /\ p.presentation_submission = Undefined
                /\ ~Includes(p.type, PresentationSubmissionType)
                /\ ~Includes(p.context, SubmissionContext)

\* C15 as amended: as claimed, but with EXTERNAL the presentation has the
\* presentation_submission, 'PresentationSubmission' type and submission context
\* that opts.basePresentationPayload has (none when it has none); the synthesized
\* submission is not embedded and no type or context is added for it.
C15_EmbeddedIffPresentationElseAsBase ==
  last.op = "presentationFrom" =>
    LET location == LocationOrDefault(last.opts.presentationSubmissionLocation)
        result   == last.did.result
        p        == result.presentation
        base     == last.opts.basePresentationPayload
    IN  /\ result.presentationSubmission = "submission"
        /\ result.presentationSubmissionLocation = location
        /\ IF location = PresentationSubmissionLocationPresentation
           THEN /\ p.presentation_submission = result.presentationSubmission
                /\ Includes(p.type, PresentationSubmissionType)
                /\ Includes(p.context, SubmissionContext)
           ELSE /\ p.presentation_submission = base.presentation_submission
                /\ p.presentation_submission # result.presentationSubmission
                /\ Count(p.type, PresentationSubmissionType)
                     = Count(base.type.items, PresentationSubmissionType)
                /\ Count(p.context, SubmissionContext)
                     = Count(base.context.items, SubmissionContext)

C15_Witness ==
  /\ last.op = "presentationFrom"
  /\ last.opts.presentationSubmissionLocation = PresentationSubmissionLocationExternal
  /\ last.opts.basePresentationPayload = NoBasePayload
  /\ last.did.result.presentationSubmission = "submission"
  /\ last.did.result.presentation.presentation_submission = Undefined
  /\ last.did.result.presentation.type = <<VerifiablePresentationType>>

\* C19: after selectFrom and after evaluatePresentation the caller's credential
\* array or presentation is as it was before the call, whatever the evaluation did
\* to what it was handed.
C19_CallerDataUnchanged ==
  last.op \in {"selectFrom", "evaluatePresentation"} => last.inputAfter = last.input

C19_Witness ==
  /\ last.op = "evaluatePresentation"
  /\ ~last.did.threw
  /\ last.effect = "projects"
  /\ last.input.verifiableCredential = "credentials"
  /\ last.inputAfter.verifiableCredential = "credentials"

(***************************************************************************)
(* EvaluationClient.evaluate with the LimitDisclosure handler (4.5).  A    *)
(* credential is its proof type and the set of claims it has, each claim   *)
(* the path of property names that leads to it; a definition has one       *)
(* descriptor, with its limit_disclosure and the paths of its fields.      *)
(***************************************************************************)
MaxCredentials == 2

Credential(proofType, claims) == [proofType |-> proofType, claims |-> claims]

\* The structurally mandatory fields of a credential.
MandatoryFields ==
  {"@context", "type", "id", "issuer", "issuanceDate", "expirationDate",
   "credentialSchema", "credentialStatus"}

EnvelopeClaims == {<<"@context">>, <<"type">>, <<"issuer">>, <<"issuanceDate">>}

OtherClaims ==
  {<<"credentialSubject", "age">>, <<"credentialSubject", "etc">>, <<"birthPlace">>}

FieldPaths == {<<"credentialSubject", "age">>, <<"credentialSubject", "name">>, <<"birthPlace">>}

ProofTypes == {"BbsBlsSignature2020", "Ed25519Signature2018"}

Credentials ==
  {Credential(t, EnvelopeClaims \cup cs) : t \in ProofTypes, cs \in SUBSET OtherClaims}

LimitDisclosures == {OptionalityRequired, OptionalityPreferred, Undefined}

\* The paths FilterEvaluation and PredicateRelatedField surface for a credential:
\* the field paths that resolve in it.
SurfacedPaths(fieldPaths, credential) == fieldPaths \cap credential.claims

\* The projected credential: the mandatory fields and the claims at the paths.
KeepAllClaims(credential, paths) == credential
Projected(credential, paths) ==
  [credential EXCEPT !.claims = {c \in @ : Head(c) \in MandatoryFields \/ c \in paths}]

\* The handler is triggered for a credential when limit_disclosure is required or
\* preferred and the allow-list has the credential's proof type.
Triggered(limit_disclosure, suites, credential) ==
  /\ limit_disclosure \in {OptionalityRequired, OptionalityPreferred}
  /\ Includes(suites, credential.proofType)

LimitDisclosureUnsupportedMessage ==
  "Limit disclosure required but signature suite does not support it"

\* What the handler does for credential j: the credential stored and the entry logged.
LimitDisclosureHandle(limit_disclosure, suites, fieldPaths, credential) ==
  IF Triggered(limit_disclosure, suites, credential)
  THEN [credential |-> Projected(credential, SurfacedPaths(fieldPaths, credential)),
        logged |-> <<[status |-> StatusInfo, message |-> "disclosed",
                      paths |-> SurfacedPaths(fieldPaths, credential)]>>]
  ELSE IF limit_disclosure = OptionalityRequired
  THEN [credential |-> credential,
        logged |-> <<[status |-> StatusError, message |-> LimitDisclosureUnsupportedMessage,
                      paths |-> {}]>>]
  ELSE [credential |-> credential, logged |-> <<>>]

LimitInit ==
  /\ NoHandle
  /\ NoPex
  /\ NoConstruct
  /\ \E n \in 1..MaxCredentials, ld \in LimitDisclosures,
        suites \in {<<>>, <<"BbsBlsSignature2020">>}, fieldPaths \in SUBSET FieldPaths :
       \E vcs \in [1..n -> Credentials] :
         lim = [pc |-> "evaluate", j |-> 0, limit_disclosure |-> ld,
                limitDisclosureSignatureSuites |-> suites, fieldPaths |-> fieldPaths,
                given |-> vcs, verifiableCredential |-> vcs, log |-> <<>>]

\* The handler's step for credential j of evaluationClient.verifiableCredential.
LimitDisclosureStep ==
  /\ lim.pc = "evaluate"
  /\ lim.j < Len(lim.verifiableCredential)
  /\ LET did == LimitDisclosureHandle(lim.limit_disclosure, lim.limitDisclosureSignatureSuites,
                                      lim.fieldPaths, lim.verifiableCredential[lim.j + 1])
     IN  lim' = [lim EXCEPT !.verifiableCredential[lim.j + 1] = did.credential,
                            !.log = @ \o did.logged,
                            !.j = @ + 1]
  /\ UNCHANGED <<hvars, pvars, cp>>

\* evaluate returns.
LimitDisclosureDone ==
  /\ lim.pc = "evaluate"
  /\ lim.j = Len(lim.verifiableCredential)
  /\ lim' = [lim EXCEPT !.pc = "done"]
  /\ UNCHANGED <<hvars, pvars, cp>>

LimitNext == LimitDisclosureStep \/ LimitDisclosureDone

SpecLimit == LimitInit /\ [][LimitNext]_vars

\* The claims of a credential that no field path addresses and that are not
\* mandatory fields.
ExtraClaims(credential) ==
  {c \in credential.claims : Head(c) \notin MandatoryFields /\ c \notin lim.fieldPaths}

====
